---- MODULE Spec2Model ----
(***************************************************************************)
(* Hybrid search and context assembly of the RAG pipeline:                 *)
(*   SearchDocumentsUseCase.execute and its helpers                        *)
(*     (src/src/core/use_cases/search_documents.py),                       *)
(*   the two retrieval primitives of PostgresDocumentRepository            *)
(*     (src/src/infrastructure/database/repositories/...),                 *)
(*   the prompt template (src/src/presentation/prompts/search_prompt.py)   *)
(*   the LLM service checks (src/src/core/interfaces/llm_service.py,       *)
(*   src/src/infrastructure/services/gemini_llm_service.py)                *)
(*   the provider selection (src/src/config/ai_service_selector.py)       *)
(*   and the ingestion of a PDF, IngestPDFUseCase.execute                  *)
(*     (src/src/core/use_cases/ingest_pdf.py).                             *)
(*                                                                         *)
(* Representation.                                                         *)
(*  - A short string is a tuple of one-character strings.                  *)
(*  - A chunk's content is the string  content \o "."^pad : a short head   *)
(*    followed by pad filler characters, so that contents of tens of       *)
(*    thousands of characters keep their real length.                      *)
(*  - A float score is a fixed-point integer, ScoreScale standing for 1.0. *)
(***************************************************************************)
EXTENDS Integers, Sequences, FiniteSets, TLC

VARIABLES
    pc,                 \* position of the running call
    question,           \* execute(question, limit): the question
    limit,              \* execute(question, limit): the limit
    chunks,             \* the chunks table of the database, in physical order
    question_embedding, \* the query vector, as its similarity to every stored chunk
    semantic_chunks,    \* result of search_similar_chunks
    text_chunks,        \* result of search_text_chunks
    similar_chunks,     \* result of _combine_search_results
    context,            \* the context items handed to the prompt
    test_context,       \* truncate_context_if_needed: the working copy
    max_length,         \* truncate_context_if_needed: max_length
    removals,           \* truncate_context_if_needed: number of pop() calls so far
    response,           \* the language model's answer
    result,             \* what execute returned
    fault,              \* the collaborator that failed in this call, if one did
    error,              \* the exception execute raised
    calls,              \* how often each collaborator was invoked in this call
    search_history,     \* the search_history table (number of rows)
    environ,            \* the API keys of the process and the .preferred_service file
    llm_service,        \* provider of self.embedding_service and self.llm_service
    sub_limits,         \* _hybrid_search_chunks: semantic_limit and text_limit
    terms,              \* result of _extract_key_terms
    prompt,             \* LLMService: the prompt text
    tokens,             \* result of estimate_token_count(prompt)
    within_limits,      \* result of is_prompt_within_limits(prompt, context)
    documents,          \* the documents table of the database
    pdf_path,           \* IngestPDFUseCase.execute(pdf_path, force): the file
    force,              \* IngestPDFUseCase.execute(pdf_path, force): the flag
    document,           \* the Document entity _load_pdf returned
    saved_document      \* what IngestPDFUseCase.execute returned

\* locals of helper calls, written by the specifications of those helpers
locals == <<sub_limits, terms, prompt, tokens, within_limits>>

\* state of the ingestion use case and of the table it shares with no other
ingestion == <<documents, pdf_path, force, document, saved_document>>

vars == <<pc, question, limit, chunks, question_embedding, semantic_chunks,
          text_chunks, similar_chunks, context, test_context, max_length,
          removals, response, result, fault, error, calls, search_history,
          environ, llm_service, sub_limits, terms, prompt, tokens,
          within_limits, documents, pdf_path, force, document,
          saved_document>>

----------------------------------------------------------------------------
(* Bounds of the model *)

\* limits range over -NegLimit .. MaxLimit
MaxLimit == 3
NegLimit == 1
\* similarities of the query to a stored chunk range over -1 .. MaxSim
\* (in units of 1/ScoreScale)
MaxSim == 1
\* longest input list of the merge, longest context of the truncation
MaxList == 2
\* execute calls made on one constructed use case
MaxExecutes == 2
\* _extract_key_terms on its own: questions of up to MaxWords words
MaxWords == 3
\* search_text_chunks on its own: term lists of up to MaxTerms entries
MaxTerms == 3
\* ingestion: a call starts while the chunks table holds fewer rows than this
MaxChunkRows == 4
\* the sub-limits on their own: limits range over -MaxWideLimit .. MaxWideLimit
MaxWideLimit == 90
\* LLMService on its own: prompts of 0 .. MaxSmallText characters and prompts
\* within CeilingMargin characters of the length the token ceiling stands for
MaxSmallText == 8
CeilingMargin == 20
MaxContext == 3

----------------------------------------------------------------------------
(* Numbers and sequences *)

Min(a, b) == IF a < b THEN a ELSE b
Max(a, b) == IF a > b THEN a ELSE b

\* 1.0 as a fixed-point score; divisible by every number of key terms in use
ScoreScale == 2 * 2 * 3

\* mutant: the slice is forgotten
\* mutant: a negative bound selects nothing
Slice_NegativeEmpty(seq, n) ==
    IF n >= 0 THEN SubSeq(seq, 1, Min(n, Len(seq))) ELSE <<>>

Slice_NoTruncation(seq, n) == seq

\* Python's seq[:n], for any integer n
Slice(seq, n) ==
    IF n >= 0 THEN SubSeq(seq, 1, Min(n, Len(seq)))
    ELSE SubSeq(seq, 1, Max(0, Len(seq) + n))

\* len(str(n)) for an integer n
RECURSIVE Digits(_)
Digits(n) == IF n < 0 THEN 1 + Digits(-n)
             ELSE IF n < 10 THEN 1 ELSE 1 + Digits(n \div 10)

RECURSIVE SeqSum(_)
SeqSum(s) == IF s = <<>> THEN 0 ELSE Head(s) + SeqSum(Tail(s))

\* all sequences over S of length at most n
SeqsUpTo(S, n) == UNION {[1..k -> S] : k \in 0..n}

IsPrefix(p, s) == Len(p) <= Len(s) /\ SubSeq(s, 1, Len(p)) = p

----------------------------------------------------------------------------
(* Characters: str.lower() and the regular expression class \w *)

UpperCase == <<"A", "B", "C", "D", "E", "F", "G", "H", "I", "J", "K", "L", "M",
               "N", "O", "P", "Q", "R", "S", "T", "U", "V", "W", "X", "Y", "Z">>
LowerCase == <<"a", "b", "c", "d", "e", "f", "g", "h", "i", "j", "k", "l", "m",
               "n", "o", "p", "q", "r", "s", "t", "u", "v", "w", "x", "y", "z">>

LowerChar(c) ==
    IF \E i \in 1..Len(UpperCase) : UpperCase[i] = c
    THEN LowerCase[CHOOSE i \in 1..Len(UpperCase) : UpperCase[i] = c]
    ELSE c

Lower(s) == [i \in 1..Len(s) |-> LowerChar(s[i])]

\* the characters the regular expression class \w matches
WordChars == {UpperCase[i] : i \in 1..Len(UpperCase)}
             \cup {LowerCase[i] : i \in 1..Len(LowerCase)}
             \cup {"0", "1", "2", "3", "4", "5", "6", "7", "8", "9", "_"}

IsSpace(c) == c = " "

\* str.strip() == "" : only whitespace
IsBlank(s) == \A i \in 1..Len(s) : IsSpace(s[i])

----------------------------------------------------------------------------
(* _extract_key_terms *)

stop_words == {
    <<"q", "u", "a", "l">>,
    <<"o">>,
    <<"d", "a">>,
    <<"d", "e">>,
    <<"d", "o">>,
    <<"d", "a", "s">>,
    <<"d", "o", "s">>,
    <<"a">>,
    <<"a", "s">>,
    <<"e">>,
    <<"e", "m">>,
    <<"n", "a">>,
    <<"n", "o">>,
    <<"n", "a", "s">>,
    <<"n", "o", "s">>,
    <<"p", "a", "r", "a">>,
    <<"c", "o", "m">>,
    <<"p", "o", "r">>,
    <<"q", "u", "e">>,
    <<"s", "e">>,
    <<"u", "m">>,
    <<"u", "m", "a">>,
    <<"u", "n", "s">>,
    <<"u", "m", "a", "s">> }

\* re.findall(r'\b\w{3,}\b', s): the maximal runs of word characters that are
\* at least MinWordLen long, in order of occurrence
MinWordLen == 3

Flush(acc, cur) == IF Len(cur) >= MinWordLen THEN Append(acc, cur) ELSE acc

RECURSIVE FindWords(_, _, _, _)
FindWords(s, i, cur, acc) ==
    IF i > Len(s) THEN Flush(acc, cur)
    ELSE IF s[i] \in WordChars
         THEN FindWords(s, i + 1, Append(cur, s[i]), acc)
         ELSE FindWords(s, i + 1, <<>>, Flush(acc, cur))

\* mutant: the stop words are kept
extract_key_terms_KeepsStopWords(q) == FindWords(Lower(q), 1, <<>>, <<>>)

\* _extract_key_terms
extract_key_terms(q) ==
    LET words == FindWords(Lower(q), 1, <<>>, <<>>)
    IN  SelectSeq(words, LAMBDA w : w \notin stop_words)

----------------------------------------------------------------------------
(* Chunks *)

\* hashlib.sha256 of a content: one fingerprint per content, none shared
Sha256(content, pad) == <<"sha256", content, pad>>
NoHash == <<>>

ContentLen(c) == Len(c.content) + c.pad

\* the first n characters of the content  content \o "."^pad , at most
ContentText(c, n) == c.content \o [i \in 1..Min(c.pad, n) |-> "."]

\* Chunk(...) followed by Chunk.__post_init__
NewChunk(row) ==
    [row EXCEPT !.content_hash =
        IF row.content_hash = NoHash /\ ContentLen(row) > 0
        THEN Sha256(row.content, row.pad) ELSE row.content_hash]

----------------------------------------------------------------------------
(* PostgresDocumentRepository: the two retrieval primitives *)

\* LIMIT {limit}: the database refuses a negative LIMIT
LimitAccepted(lim) == lim >= 0

\* the values range(n) -> S takes without repeating one
InjSeqs(S, n) == {f \in [1..n -> S] : \A i, j \in 1..n : i # j => f[i] # f[j]}

\* mutant: the ORDER BY is missing, the rows come back in any order
search_similar_chunks_Unordered(emb, lim, similarity_threshold) ==
    LET eligible == {i \in 1..Len(chunks) : emb[i] >= similarity_threshold}
        k == Min(lim, Cardinality(eligible))
    IN  {[i \in 1..k |-> [chunk |-> NewChunk(chunks[f[i]]), score |-> emb[f[i]]]]
            : f \in InjSeqs(eligible, k)}

\* search_similar_chunks: every list the SELECT ... WHERE similarity >= threshold
\* ORDER BY distance ASC LIMIT lim may return; rows of equal distance come in
\* any order. emb[i] is 1 - cosine distance of the query to row i.
search_similar_chunks(emb, lim, similarity_threshold) ==
    LET eligible == {i \in 1..Len(chunks) : emb[i] >= similarity_threshold}
        k == Min(lim, Cardinality(eligible))
        ranked == {f \in InjSeqs(eligible, k) :
                     /\ \A i \in 1..(k - 1) : emb[f[i]] >= emb[f[i + 1]]
                     /\ \A j \in eligible :
                          (\A i \in 1..k : f[i] # j) =>
                              \A i \in 1..k : emb[f[i]] >= emb[j]}
    IN  {[i \in 1..k |-> [chunk |-> NewChunk(chunks[f[i]]), score |-> emb[f[i]]]]
            : f \in ranked}

\* content ILIKE '%term%': case-insensitive, "_" in the pattern matches any
\* one character
ILike(c, term) ==
    LET txt == Lower(ContentText(c, Len(term)))
        pat == Lower(term)
    IN  \E off \in 0..(Len(txt) - Len(pat)) :
            \A i \in 1..Len(pat) : pat[i] = "_" \/ pat[i] = txt[off + i]

\* term.lower() in content_lower
Contains(c, term) ==
    LET txt == Lower(ContentText(c, Len(term)))
        pat == Lower(term)
    IN  \E off \in 0..(Len(txt) - Len(pat)) :
            \A i \in 1..Len(pat) : pat[i] = txt[off + i]

\* mutant: reverse=True forgotten, lowest score first
RECURSIVE InsertByScore_Ascending(_, _)
InsertByScore_Ascending(sorted, x) ==
    IF sorted = <<>> THEN <<x>>
    ELSE IF Head(sorted).score <= x.score
         THEN <<Head(sorted)>> \o InsertByScore_Ascending(Tail(sorted), x)
         ELSE <<x>> \o sorted

\* list.sort(key=score, reverse=True): stable, highest score first
RECURSIVE InsertByScore(_, _)
InsertByScore(sorted, x) ==
    IF sorted = <<>> THEN <<x>>
    ELSE IF Head(sorted).score >= x.score
         THEN <<Head(sorted)>> \o InsertByScore(Tail(sorted), x)
         ELSE <<x>> \o sorted

RECURSIVE SortByScoreDesc(_)
SortByScoreDesc(seq) ==
    IF seq = <<>> THEN <<>>
    ELSE InsertByScore(SortByScoreDesc(SubSeq(seq, 1, Len(seq) - 1)), seq[Len(seq)])

\* mutant: the number of matches is not divided by the number of terms
TextScore_Unnormalised(c, key_terms) ==
    Cardinality({t \in 1..Len(key_terms) : Contains(c, key_terms[t])}) * ScoreScale

\* matches / len(key_terms)
TextScore(c, key_terms) ==
    LET matches == Cardinality({t \in 1..Len(key_terms) : Contains(c, key_terms[t])})
    IN  (matches * ScoreScale) \div Len(key_terms)

\* mutant: the guard on an empty term list is missing and the WHERE clause,
\* left without conditions, selects every row
search_text_chunks_NoGuard(key_terms, lim) ==
    LET matching == {i \in 1..Len(chunks) :
                        \/ key_terms = <<>>
                        \/ \E t \in 1..Len(key_terms) : ILike(chunks[i], key_terms[t])}
        k == Min(lim, Cardinality(matching))
    IN  {SortByScoreDesc(
            [i \in 1..k |-> [chunk |-> NewChunk(chunks[f[i]]),
                             score |-> IF key_terms = <<>> THEN 0
                                       ELSE TextScore(chunks[f[i]], key_terms)]])
            : f \in InjSeqs(matching, k)}

\* search_text_chunks: every list it may return; the SELECT has a LIMIT and no
\* ORDER BY, so the database returns any lim of the matching rows, in any order
search_text_chunks(key_terms, lim) ==
    IF key_terms = <<>> THEN {<<>>}
    ELSE
    LET matching == {i \in 1..Len(chunks) :
                        \E t \in 1..Len(key_terms) : ILike(chunks[i], key_terms[t])}
        k == Min(lim, Cardinality(matching))
    IN  {SortByScoreDesc(
            [i \in 1..k |-> [chunk |-> NewChunk(chunks[f[i]]),
                             score |-> TextScore(chunks[f[i]], key_terms)]])
            : f \in InjSeqs(matching, k)}

----------------------------------------------------------------------------
(* SearchDocumentsUseCase: the hybrid merge *)

HashIndex(d, h) == {i \in 1..Len(d) : d[i].chunk.content_hash = h}

\* mutant: the merge keeps a list, not a dict
DictSet_Appends(d, x) == Append(d, x)

\* unique_chunks[chunk.content_hash] = (chunk, similarity): a dict keeps the
\* position of a key's first insertion and the value of its last
DictSet(d, x) ==
    IF HashIndex(d, x.chunk.content_hash) = {} THEN Append(d, x)
    ELSE [i \in 1..Len(d) |->
            IF d[i].chunk.content_hash = x.chunk.content_hash THEN x ELSE d[i]]

\* mutant: a lexical entry overwrites the entry of its fingerprint
DictSetDefault_Overwrites(d, x) == DictSet(d, x)

\* if chunk.content_hash not in unique_chunks: unique_chunks[...] = ...
DictSetDefault(d, x) ==
    IF HashIndex(d, x.chunk.content_hash) = {} THEN Append(d, x) ELSE d

\* mutant: the first semantic entry of a fingerprint is kept, later ones dropped
RECURSIVE AddSemantic_KeepsFirst(_, _)
AddSemantic_KeepsFirst(d, seq) ==
    IF seq = <<>> THEN d
    ELSE AddSemantic_KeepsFirst(DictSetDefault(d, Head(seq)), Tail(seq))

RECURSIVE AddSemantic(_, _)
AddSemantic(d, seq) ==
    IF seq = <<>> THEN d ELSE AddSemantic(DictSet(d, Head(seq)), Tail(seq))

RECURSIVE AddText(_, _)
AddText(d, seq) ==
    IF seq = <<>> THEN d ELSE AddText(DictSetDefault(d, Head(seq)), Tail(seq))

combine_search_results(sem, txt, lim) ==
    LET unique_chunks == AddText(AddSemantic(<<>>, sem), txt)
        combined == SortByScoreDesc(unique_chunks)
    IN  Slice(combined, lim)

\* the largest power of two <= k, from p upwards
RECURSIVE PowerOfTwoBelow(_, _)
PowerOfTwoBelow(k, p) == IF 2 * p <= k THEN PowerOfTwoBelow(k, 2 * p) ELSE p

\* int(limit * 0.7): the product of limit and the double nearest to 0.7,
\* rounded to a double, truncated towards zero. The double 0.7 is
\* 0.7 - 0.4 * 2^-53, so the exact product is 0.7*|limit| - 0.4*|limit|*2^-53.
\* When |limit| = 10*m the product lies 4*m*2^-53 below the integer 7*m;
\* with 2^e <= 7*m < 2^(e+1) the doubles below 7*m are 2^(e-52) apart, so the
\* product rounds to 7*m when 4*m <= 2^e (a tie goes to 7*m, the even
\* neighbour) and to the double just below 7*m otherwise, which int() cuts
\* to 7*m - 1. For other limits 0.7*|limit| is at least 0.1 away from an
\* integer and the rounding does not reach it.
SemanticShare(lim) ==
    LET a == IF lim >= 0 THEN lim ELSE -lim
        m == a \div 10
        magnitude ==
            IF a > 0 /\ a % 10 = 0 /\ 4 * m > PowerOfTwoBelow(7 * m, 1)
            THEN 7 * m - 1
            ELSE (a * 7) \div 10
    IN  IF lim >= 0 THEN magnitude ELSE -magnitude

semantic_limit(lim) == Max(1, SemanticShare(lim))

\* mutant: the lexical sub-limit is what the semantic sub-limit leaves
text_limit_UsesSubLimit(lim, sem) == Max(1, lim - semantic_limit(lim))

\* max(1, limit - len(semantic_chunks))
text_limit(lim, sem) == Max(1, lim - Len(sem))

----------------------------------------------------------------------------
(* Context assembly *)

\* mutant: the score is cut to 4 decimals, not rounded
Round4_Truncates(score) == (10000 * score) \div ScoreScale

\* round(similarity, 4), in units of 1/10000 (no fixed-point score lies
\* half-way between two such units)
Round4(score) == (2 * 10000 * score + ScoreScale) \div (2 * ScoreScale)

\* _format_chunks_as_context: one context item per (chunk, similarity) pair
format_chunks_as_context(chunks_with_similarity) ==
    [i \in 1..Len(chunks_with_similarity) |->
        LET chunk == chunks_with_similarity[i].chunk
            similarity == chunks_with_similarity[i].score
        IN  [content |-> chunk.content,
             pad |-> chunk.pad,
             metadata |-> [page_number |-> chunk.page_number,
                           chunk_index |-> chunk.chunk_index,
                           similarity_score |-> Round4(similarity),
                           document_id |-> chunk.document_id]]]

\* len("Nenhum contexto fornecido.")
NoContextLen == 26
\* len(BASE_TEMPLATE) without its two placeholders
TemplateLen == 849

\* len of one part f"{i}. {content} (Página {p}, Chunk {c})"
PartLen(i, item) ==
    Digits(i) + 2 + ContentLen(item)
    + 2 + 7 + Digits(item.metadata.page_number)
    + 2 + 6 + Digits(item.metadata.chunk_index) + 1

\* len(SearchPromptTemplate._format_context(ctx)): the parts joined by "\n\n"
FormatContextLen(ctx) ==
    IF ctx = <<>> THEN NoContextLen
    ELSE SeqSum([i \in 1..Len(ctx) |-> PartLen(i, ctx[i])]) + 2 * (Len(ctx) - 1)

\* len(SearchPromptTemplate.format_prompt(q, ctx)) with the base template
FormatPromptLen(q, ctx) == TemplateLen + FormatContextLen(ctx) + Len(q)

\* validate_prompt_length
validate_prompt_length(prompt_len, maxlen) == prompt_len <= maxlen

\* the default max_length of truncate_context_if_needed
DefaultMaxLength == 32000

\* mutant: the loop stops at one item, whether it fits or not
TruncateLoopExits_KeepsOne(tc, q, maxlen) ==
    Len(tc) <= 1 \/ validate_prompt_length(FormatPromptLen(q, tc), maxlen)

\* one turn of the while loop of truncate_context_if_needed on test_context:
\* TRUE when the loop is left (empty list, or break)
TruncateLoopExits(tc, q, maxlen) ==
    tc = <<>> \/ validate_prompt_length(FormatPromptLen(q, tc), maxlen)

\* mutant: pop(0), the highest-ranked item goes first
Pop_First(tc) == Tail(tc)

\* test_context.pop()
Pop(tc) == SubSeq(tc, 1, Len(tc) - 1)

RECURSIVE TruncateLoop(_, _, _)
TruncateLoop(tc, q, maxlen) ==
    IF TruncateLoopExits(tc, q, maxlen) THEN tc
    ELSE TruncateLoop(Pop(tc), q, maxlen)

truncate_context_if_needed(ctx, q, maxlen) == TruncateLoop(ctx, q, maxlen)

----------------------------------------------------------------------------
(* LLMService *)

\* len of one part f"{i}. {content} (Page {p})"
ServicePartLen(i, item) ==
    Digits(i) + 2 + ContentLen(item) + 7 + Digits(item.metadata.page_number) + 1

\* len(format_context_for_prompt(ctx))
ServiceContextLen(ctx) ==
    IF ctx = <<>> THEN 0
    ELSE SeqSum([i \in 1..Len(ctx) |-> ServicePartLen(i, ctx[i])])
         + 2 * (Len(ctx) - 1)

\* mutant: the estimate is rounded up
estimate_token_count_RoundsUp(text_len) == (text_len + 3) \div 4

\* len(text) // 4
estimate_token_count(text_len) == text_len \div 4

\* mutant: the context passed beside the prompt is not counted again
estimate_prompt_tokens_PromptOnly(prompt_len, ctx) == estimate_token_count(prompt_len)

estimate_prompt_tokens(prompt_len, ctx) ==
    estimate_token_count(prompt_len)
    + (IF ctx # <<>> THEN estimate_token_count(ServiceContextLen(ctx)) ELSE 0)

TokenCeiling == 30000

\* mutant: an estimate equal to the ceiling passes
is_prompt_within_limits_Inclusive(prompt_len, ctx) ==
    estimate_prompt_tokens(prompt_len, ctx) <= TokenCeiling

is_prompt_within_limits(prompt_len, ctx) ==
    estimate_prompt_tokens(prompt_len, ctx) < TokenCeiling

MaxPromptChars == 32000

\* validate_prompt: the rendered prompt is never blank, its length decides
validate_prompt(prompt_len) == prompt_len > 0 /\ ~(prompt_len > MaxPromptChars)

\* the context _generate_ai_response hands to generate_response
PromptContext(q, ctx) ==
    IF ~is_prompt_within_limits(FormatPromptLen(q, ctx), ctx)
    THEN truncate_context_if_needed(ctx, q, DefaultMaxLength)
    ELSE ctx

----------------------------------------------------------------------------
(* AIServiceSelector and the construction of the use case *)

\* str.strip()
RECURSIVE LStrip(_)
LStrip(s) == IF s # <<>> /\ IsSpace(Head(s)) THEN LStrip(Tail(s)) ELSE s
RECURSIVE RStrip(_)
RStrip(s) ==
    IF s # <<>> /\ IsSpace(s[Len(s)]) THEN RStrip(SubSeq(s, 1, Len(s) - 1)) ELSE s
Strip(s) == RStrip(LStrip(s))

OpenAI == <<"o", "p", "e", "n", "a", "i">>
Google == <<"g", "o", "o", "g", "l", "e">>
\* None
NoService == <<>>

\* get_preferred_service: the content of .preferred_service, stripped and
\* lower-cased, when it names a provider
get_preferred_service(env) ==
    IF ~env.preferred_file.exists THEN NoService
    ELSE LET service == Lower(Strip(env.preferred_file.text))
         IN  IF service \in {OpenAI, Google} THEN service ELSE NoService

\* get_available_services: the providers whose API key is set and not empty
get_available_services(env) ==
    (IF env.OPENAI_API_KEY = "set" THEN <<OpenAI>> ELSE <<>>)
    \o (IF env.GOOGLE_API_KEY = "set" THEN <<Google>> ELSE <<>>)

\* mutant: the preference is not consulted
select_service_IgnoresPreference(env) ==
    LET available == get_available_services(env)
    IN  IF available = <<>> THEN NoService ELSE available[1]

\* select_service
select_service(env) ==
    LET available == get_available_services(env)
        preferred == get_preferred_service(env)
    IN  IF available = <<>> THEN NoService
        ELSE IF preferred # NoService /\ \E i \in 1..Len(available) : available[i] = preferred
        THEN preferred
        ELSE available[1]

----------------------------------------------------------------------------
(* The inputs and the database the model runs on *)

Limits == (-NegLimit)..MaxLimit

\* similarity of the query to a stored chunk: 1 - cosine distance, fixed-point
SimStep == ScoreScale \div 2
Sims == {n * SimStep : n \in (-1)..MaxSim}

Questions == {
    <<>>,
    <<" ", " ">>,
    <<"Q", "u", "a", "l", " ", "o", " ", "a", "l", "f", "a", "?">>,
    <<"a", "l", "f", "a", " ", "b", "e", "t", "a">>,
    <<"o", " ", "d", "a">> }

Row(id, doc, idx, content, pad, page) ==
    [id |-> id, document_id |-> doc, chunk_index |-> idx, content |-> content,
     pad |-> pad, content_hash |-> Sha256(content, pad), page_number |-> page]

\* rows 1 and 2 hold the same content in two documents; row 3 alone makes the
\* prompt longer than 32000 characters; row 4 alone brings the token estimate
\* over 30000
ChunkTable == <<
    Row(1, 1, 0, <<"A", "l", "f", "a">>, 0, 1),
    Row(2, 2, 0, <<"A", "l", "f", "a">>, 0, 1),
    Row(3, 1, 1, <<"b", "e", "t", "a", " ", "g", "a", "m", "a">>, 31200, 2),
    Row(4, 2, 1, <<"a", "l", "f", "a", " ", "b", "e", "t", "a">>, 60000, 10) >>

\* a row of the documents table
DocumentRow(id, filename, content_hash, total_chunks) ==
    [id |-> id, filename |-> filename, content_hash |-> content_hash,
     total_chunks |-> total_chunks]

\* the two documents the rows of ChunkTable belong to
DocumentTable == <<
    DocumentRow(1, "one.pdf", <<"sha256", "one">>, 2),
    DocumentRow(2, "two.pdf", <<"sha256", "two">>, 2) >>

\* no call of IngestPDFUseCase.execute was made yet
NoFile == [filename |-> "", exists |-> FALSE, in_cwd |-> FALSE, content |-> "",
           chunks |-> <<>>]
\* None where a Document is expected
NoDocument == DocumentRow(0, "", <<>>, 0)

Answers == {"answer"}

\* a text of len(content) + pad characters
Text(content, pad) == [content |-> content, pad |-> pad]
\* the sub-limits before _hybrid_search_chunks computes them
NoSubLimits == [semantic |-> 0, text |-> 0]

\* states of an environment variable as os.getenv sees it
KeyStates == {"unset", "empty", "set"}
\* .preferred_service: absent, or holding one of these texts
PreferredFiles ==
    {[exists |-> FALSE, text |-> <<>>]}
    \cup [exists : {TRUE},
          text : {OpenAI, <<"G", "o", "o", "g", "l", "e", " ">>,
                  <<"a", "z", "u", "r", "e">>}]
Environments ==
    [OPENAI_API_KEY : KeyStates, GOOGLE_API_KEY : KeyStates,
     preferred_file : PreferredFiles]
\* the environment the search pipeline is modelled in: the Gemini key alone
DefaultEnviron ==
    [OPENAI_API_KEY |-> "unset", GOOGLE_API_KEY |-> "set",
     preferred_file |-> [exists |-> FALSE, text |-> <<>>]]

\* the fixed fallback text of execute
Fallback == "Não tenho informações necessárias para responder sua pergunta."

NoCalls == [embed |-> 0, semantic |-> 0, lexical |-> 0, llm |-> 0,
            client |-> 0, history |-> 0]

----------------------------------------------------------------------------
(* SearchDocumentsUseCase.execute, one await at a time *)

Init ==
    /\ pc = "start"
    /\ question \in Questions
    /\ limit \in Limits
    /\ chunks = ChunkTable
    /\ documents = DocumentTable
    /\ pdf_path = NoFile
    /\ force = FALSE
    /\ document = NoDocument
    /\ saved_document = NoDocument
    /\ question_embedding = <<>>
    /\ semantic_chunks = <<>>
    /\ text_chunks = <<>>
    /\ similar_chunks = <<>>
    /\ context = <<>>
    /\ test_context = <<>>
    /\ max_length = DefaultMaxLength
    /\ removals = 0
    /\ response = "none"
    /\ result = "none"
    /\ fault = "none"
    /\ error = "none"
    /\ calls = NoCalls
    /\ search_history = 0
    /\ sub_limits = NoSubLimits
    /\ terms = <<>>
    /\ prompt = Text(<<>>, 0)
    /\ tokens = 0
    /\ within_limits = FALSE
    /\ environ = DefaultEnviron
    /\ llm_service = select_service(DefaultEnviron)

\* mutant: the failure is swallowed and the fallback text returned
Raise_Swallowed(e) ==
    /\ fault' = e
    /\ pc' = "done"
    /\ error' = error
    /\ result' = Fallback

\* a collaborator fails with e; the except clauses of execute and of its
\* helpers log and re-raise: execute ends with the exception and returns nothing
Raise(e) ==
    /\ fault' = e
    /\ pc' = "raised"
    /\ error' = e
    /\ result' = result

\* _generate_question_embedding: the embedding service answers
EmbeddingOk ==
    /\ pc = "start"
    /\ calls' = [calls EXCEPT !.embed = @ + 1]
    /\ \E emb \in [1..Len(chunks) -> Sims] : question_embedding' = emb
    /\ pc' = "embedded"
    /\ UNCHANGED <<ingestion, locals, environ, llm_service, fault, question, limit,
                   chunks, semantic_chunks, text_chunks, similar_chunks,
                   context, test_context, max_length, removals, response,
                   result, error, search_history>>

\* _generate_question_embedding: the embedding service raises
EmbeddingFails ==
    /\ pc = "start"
    /\ calls' = [calls EXCEPT !.embed = @ + 1]
    /\ Raise("embedding")
    /\ UNCHANGED <<ingestion, locals, environ, llm_service, question, limit, chunks,
                   question_embedding, semantic_chunks, text_chunks,
                   similar_chunks, context, test_context, max_length,
                   removals, response, search_history>>

\* _hybrid_search_chunks up to the await of search_similar_chunks, which returns
SemanticSearchOk ==
    /\ pc = "embedded"
    /\ LimitAccepted(semantic_limit(limit))
    /\ calls' = [calls EXCEPT !.semantic = @ + 1]
    /\ sub_limits' = [sub_limits EXCEPT !.semantic = semantic_limit(limit)]
    /\ \E r \in search_similar_chunks(question_embedding, semantic_limit(limit), 0) :
          semantic_chunks' = r
    /\ pc' = "semantic_done"
    /\ UNCHANGED <<ingestion, terms, prompt, tokens, within_limits, environ, llm_service,
                   fault, question, limit, chunks, question_embedding,
                   text_chunks, similar_chunks, context, test_context,
                   max_length, removals, response, result, error,
                   search_history>>

\* mutant: a semantic failure falls back to the lexical search alone
SemanticSearchFails_FallsBack ==
    /\ pc = "embedded"
    /\ calls' = [calls EXCEPT !.semantic = @ + 1]
    /\ sub_limits' = [sub_limits EXCEPT !.semantic = semantic_limit(limit)]
    /\ fault' = "semantic"
    /\ semantic_chunks' = <<>>
    /\ pc' = "semantic_done"
    /\ UNCHANGED <<ingestion, terms, prompt, tokens, within_limits, environ, llm_service,
                   question, limit, chunks, question_embedding, text_chunks,
                   similar_chunks, context, test_context, max_length,
                   removals, response, result, error, search_history>>

\* search_similar_chunks raises (the database fails, or refuses a negative LIMIT)
SemanticSearchFails ==
    /\ pc = "embedded"
    /\ calls' = [calls EXCEPT !.semantic = @ + 1]
    /\ sub_limits' = [sub_limits EXCEPT !.semantic = semantic_limit(limit)]
    /\ Raise("semantic")
    /\ UNCHANGED <<ingestion, terms, prompt, tokens, within_limits, environ, llm_service,
                   question, limit, chunks, question_embedding,
                   semantic_chunks, text_chunks, similar_chunks, context,
                   test_context, max_length, removals, response,
                   search_history>>

\* mutant: the empty result is not noticed
NoResults_Never(found) == FALSE

\* if not similar_chunks
NoResults(found) == found = <<>>

\* search_text_chunks returns; _hybrid_search_chunks merges and returns; execute
\* answers with the fallback, or formats the context and _generate_ai_response
\* renders the prompt, checks the budget and truncates, up to the await of
\* generate_response
TextSearchOk ==
    /\ pc = "semantic_done"
    /\ LimitAccepted(text_limit(limit, semantic_chunks))
    /\ calls' = [calls EXCEPT !.lexical = @ + 1]
    /\ sub_limits' = [sub_limits EXCEPT !.text = text_limit(limit, semantic_chunks)]
    /\ \E r \in search_text_chunks(extract_key_terms(question),
                                   text_limit(limit, semantic_chunks)) :
          /\ text_chunks' = r
          /\ similar_chunks' = combine_search_results(semantic_chunks, r, limit)
    /\ IF NoResults(similar_chunks')
       THEN /\ result' = Fallback
            /\ pc' = "done"
            /\ UNCHANGED context
       ELSE /\ context' = PromptContext(question,
                                        format_chunks_as_context(similar_chunks'))
            /\ pc' = "generating"
            /\ UNCHANGED result
    /\ UNCHANGED <<ingestion, terms, prompt, tokens, within_limits, environ, llm_service,
                   fault, question, limit, chunks, question_embedding,
                   semantic_chunks, test_context, max_length, removals,
                   response, error, search_history>>

\* search_text_chunks raises; with no key terms it returns before it reaches
\* the database
TextSearchFails ==
    /\ pc = "semantic_done"
    /\ extract_key_terms(question) # <<>>
    /\ calls' = [calls EXCEPT !.lexical = @ + 1]
    /\ sub_limits' = [sub_limits EXCEPT !.text = text_limit(limit, semantic_chunks)]
    /\ Raise("lexical")
    /\ UNCHANGED <<ingestion, terms, prompt, tokens, within_limits, environ, llm_service,
                   question, limit, chunks, question_embedding,
                   semantic_chunks, text_chunks, similar_chunks, context,
                   test_context, max_length, removals, response,
                   search_history>>

\* the checks generate_response makes before it reaches the model
PromptAccepted(q, ctx) ==
    /\ validate_prompt(FormatPromptLen(q, ctx))
    /\ is_prompt_within_limits(FormatPromptLen(q, ctx), ctx)

\* generate_response refuses the prompt: ValueError, re-raised
GenerateRejects ==
    /\ pc = "generating"
    /\ ~PromptAccepted(question, context)
    /\ calls' = [calls EXCEPT !.llm = @ + 1]
    /\ Raise("generation")
    /\ UNCHANGED <<ingestion, locals, environ, llm_service, question, limit, chunks,
                   question_embedding, semantic_chunks, text_chunks,
                   similar_chunks, context, test_context, max_length,
                   removals, response, search_history>>

\* generate_response: the model answers
GenerateOk ==
    /\ pc = "generating"
    /\ PromptAccepted(question, context)
    /\ calls' = [calls EXCEPT !.llm = @ + 1, !.client = @ + 1]
    /\ response' \in Answers
    /\ pc' = "saving"
    /\ UNCHANGED <<ingestion, locals, environ, llm_service, fault, question, limit,
                   chunks, question_embedding, semantic_chunks, text_chunks,
                   similar_chunks, context, test_context, max_length,
                   removals, result, error, search_history>>

\* mutant: a failed generation is attempted again
GenerateFails_Retries ==
    /\ pc = "generating"
    /\ PromptAccepted(question, context)
    /\ calls' = [calls EXCEPT !.llm = @ + 1, !.client = @ + 1]
    /\ fault' = "generation"
    /\ UNCHANGED <<ingestion, locals, environ, llm_service, pc, error, result, question,
                   limit, chunks, question_embedding, semantic_chunks,
                   text_chunks, similar_chunks, context, test_context,
                   max_length, removals, response, search_history>>

\* generate_response: the model client raises
GenerateFails ==
    /\ pc = "generating"
    /\ PromptAccepted(question, context)
    /\ calls' = [calls EXCEPT !.llm = @ + 1, !.client = @ + 1]
    /\ Raise("generation")
    /\ UNCHANGED <<ingestion, locals, environ, llm_service, question, limit, chunks,
                   question_embedding, semantic_chunks, text_chunks,
                   similar_chunks, context, test_context, max_length,
                   removals, response, search_history>>

\* _save_search_history stores the record; execute returns the response
SaveHistoryOk ==
    /\ pc = "saving"
    /\ calls' = [calls EXCEPT !.history = @ + 1]
    /\ search_history' = search_history + 1
    /\ result' = response
    /\ pc' = "done"
    /\ UNCHANGED <<ingestion, locals, environ, llm_service, fault, question, limit,
                   chunks, question_embedding, semantic_chunks, text_chunks,
                   similar_chunks, context, test_context, max_length,
                   removals, response, error>>

\* mutant: the failure to save the history is re-raised
SaveHistoryFails_Propagates ==
    /\ pc = "saving"
    /\ calls' = [calls EXCEPT !.history = @ + 1]
    /\ fault' = "history"
    /\ error' = "history"
    /\ pc' = "raised"
    /\ UNCHANGED <<ingestion, locals, environ, llm_service, question, limit, chunks,
                   question_embedding, semantic_chunks, text_chunks,
                   similar_chunks, context, test_context, max_length,
                   removals, response, result, search_history>>

\* save_search_history raises: _save_search_history logs a warning and
\* returns; execute returns the response
SaveHistoryFails ==
    /\ pc = "saving"
    /\ calls' = [calls EXCEPT !.history = @ + 1]
    /\ fault' = "history"
    /\ result' = response
    /\ pc' = "done"
    /\ UNCHANGED <<ingestion, locals, environ, llm_service, question, limit, chunks,
                   question_embedding, semantic_chunks, text_chunks,
                   similar_chunks, context, test_context, max_length,
                   removals, response, error, search_history>>

Next ==
    \/ EmbeddingOk
    \/ EmbeddingFails
    \/ SemanticSearchOk
    \/ SemanticSearchFails
    \/ TextSearchOk
    \/ TextSearchFails
    \/ GenerateRejects
    \/ GenerateOk
    \/ GenerateFails
    \/ SaveHistoryOk
    \/ SaveHistoryFails

Spec == Init /\ [][Next]_vars

----------------------------------------------------------------------------
(* _combine_search_results on its own, over arbitrary result lists *)

\* chunks 1 and 2 share a fingerprint, chunk 3 has its own
MergeChunks == {NewChunk(ChunkTable[i]) : i \in 1..3}
MergeScores == {SimStep, ScoreScale}
MergePairs == [chunk : MergeChunks, score : MergeScores]

InitCombine ==
    /\ pc = "combine"
    /\ semantic_chunks \in SeqsUpTo(MergePairs, MaxList)
    /\ text_chunks \in SeqsUpTo(MergePairs, MaxList)
    /\ limit \in Limits
    /\ question = <<>>
    /\ chunks = ChunkTable
    /\ documents = DocumentTable
    /\ pdf_path = NoFile
    /\ force = FALSE
    /\ document = NoDocument
    /\ saved_document = NoDocument
    /\ question_embedding = <<>>
    /\ similar_chunks = <<>>
    /\ context = <<>>
    /\ test_context = <<>>
    /\ max_length = DefaultMaxLength
    /\ removals = 0
    /\ response = "none"
    /\ result = "none"
    /\ fault = "none"
    /\ error = "none"
    /\ calls = NoCalls
    /\ search_history = 0
    /\ sub_limits = NoSubLimits
    /\ terms = <<>>
    /\ prompt = Text(<<>>, 0)
    /\ tokens = 0
    /\ within_limits = FALSE
    /\ environ = DefaultEnviron
    /\ llm_service = select_service(DefaultEnviron)

Combine ==
    /\ pc = "combine"
    /\ similar_chunks' = combine_search_results(semantic_chunks, text_chunks, limit)
    /\ pc' = "combined"
    /\ UNCHANGED <<ingestion, locals, environ, llm_service, fault, question, limit,
                   chunks, question_embedding, semantic_chunks, text_chunks,
                   context, test_context, max_length, removals, response,
                   result, error, calls, search_history>>

SpecCombine == InitCombine /\ [][Combine]_vars

----------------------------------------------------------------------------
(* _format_chunks_as_context on its own, applied twice to one result list *)

\* 1/12, 2/3 and 1.0: the first rounds down to 0.0833, the second up to 0.6667
FormatScores == {1, 8, ScoreScale}
FormatPairs == [chunk : {NewChunk(ChunkTable[i]) : i \in 1..Len(ChunkTable)},
                score : FormatScores]

InitFormat ==
    /\ pc = "format"
    /\ similar_chunks \in SeqsUpTo(FormatPairs, MaxList)
    /\ question = <<>>
    /\ limit = 0
    /\ chunks = ChunkTable
    /\ documents = DocumentTable
    /\ pdf_path = NoFile
    /\ force = FALSE
    /\ document = NoDocument
    /\ saved_document = NoDocument
    /\ question_embedding = <<>>
    /\ semantic_chunks = <<>>
    /\ text_chunks = <<>>
    /\ context = <<>>
    /\ test_context = <<>>
    /\ max_length = DefaultMaxLength
    /\ removals = 0
    /\ response = "none"
    /\ result = "none"
    /\ fault = "none"
    /\ error = "none"
    /\ calls = NoCalls
    /\ search_history = 0
    /\ sub_limits = NoSubLimits
    /\ terms = <<>>
    /\ prompt = Text(<<>>, 0)
    /\ tokens = 0
    /\ within_limits = FALSE
    /\ environ = DefaultEnviron
    /\ llm_service = select_service(DefaultEnviron)

\* context = self._format_chunks_as_context(similar_chunks)
FormatChunks ==
    /\ pc = "format"
    /\ context' = format_chunks_as_context(similar_chunks)
    /\ pc' = "formatted"
    /\ UNCHANGED <<ingestion, locals, environ, llm_service, fault, question, limit,
                   chunks, question_embedding, semantic_chunks, text_chunks,
                   similar_chunks, test_context, max_length, removals,
                   response, result, error, calls, search_history>>

\* the same call once more, on the list the first call was given
FormatChunksAgain ==
    /\ pc = "formatted"
    /\ context' = format_chunks_as_context(similar_chunks)
    /\ pc' = "formatted_twice"
    /\ UNCHANGED <<ingestion, locals, environ, llm_service, fault, question, limit,
                   chunks, question_embedding, semantic_chunks, text_chunks,
                   similar_chunks, test_context, max_length, removals,
                   response, result, error, calls, search_history>>

NextFormat == FormatChunks \/ FormatChunksAgain

SpecFormat == InitFormat /\ [][NextFormat]_vars

----------------------------------------------------------------------------
(* SearchDocumentsUseCase(): construction, then execute calls, while the *)
(* environment of the process changes                                    *)

InitConstruct ==
    /\ pc = "unconstructed"
    /\ environ \in Environments
    /\ llm_service = NoService
    /\ question = <<>>
    /\ limit = 0
    /\ chunks = ChunkTable
    /\ documents = DocumentTable
    /\ pdf_path = NoFile
    /\ force = FALSE
    /\ document = NoDocument
    /\ saved_document = NoDocument
    /\ question_embedding = <<>>
    /\ semantic_chunks = <<>>
    /\ text_chunks = <<>>
    /\ similar_chunks = <<>>
    /\ context = <<>>
    /\ test_context = <<>>
    /\ max_length = DefaultMaxLength
    /\ removals = 0
    /\ response = [service |-> NoService, text |-> "none"]
    /\ result = "none"
    /\ fault = "none"
    /\ error = "none"
    /\ calls = NoCalls
    /\ search_history = 0
    /\ sub_limits = NoSubLimits
    /\ terms = <<>>
    /\ prompt = Text(<<>>, 0)
    /\ tokens = 0
    /\ within_limits = FALSE

\* __init__: the services of the selected provider, or ValueError
Construct ==
    /\ pc = "unconstructed"
    /\ LET selected_service == select_service(environ)
       IN  IF selected_service \in {OpenAI, Google}
           THEN /\ llm_service' = selected_service
                /\ pc' = "ready"
                /\ UNCHANGED error
           ELSE /\ error' = "config"
                /\ pc' = "construct_failed"
                /\ UNCHANGED llm_service
    /\ UNCHANGED <<ingestion, locals, environ, question, limit, chunks,
                   question_embedding, semantic_chunks, text_chunks,
                   similar_chunks, context, test_context, max_length,
                   removals, response, result, fault, calls, search_history>>

\* an API key is set or unset, .preferred_service is written or removed
EnvironChanges ==
    /\ pc = "ready"
    /\ environ' \in Environments \ {environ}
    /\ UNCHANGED <<ingestion, locals, llm_service, pc, question, limit, chunks,
                   question_embedding, semantic_chunks, text_chunks,
                   similar_chunks, context, test_context, max_length,
                   removals, response, result, fault, error, calls,
                   search_history>>

\* mutant: execute selects the provider again
Execute_ReReads ==
    /\ pc = "ready"
    /\ calls.llm < MaxExecutes
    /\ calls' = [calls EXCEPT !.embed = @ + 1, !.llm = @ + 1]
    /\ \E a \in Answers : response' = [service |-> select_service(environ), text |-> a]
    /\ UNCHANGED <<ingestion, locals, environ, llm_service, pc, question, limit, chunks,
                   question_embedding, semantic_chunks, text_chunks,
                   similar_chunks, context, test_context, max_length,
                   removals, result, fault, error, search_history>>

\* execute, as far as the provider goes: the embedding and the answer come
\* from self.embedding_service and self.llm_service
Execute ==
    /\ pc = "ready"
    /\ calls.llm < MaxExecutes
    /\ calls' = [calls EXCEPT !.embed = @ + 1, !.llm = @ + 1]
    /\ \E a \in Answers : response' = [service |-> llm_service, text |-> a]
    /\ UNCHANGED <<ingestion, locals, environ, llm_service, pc, question, limit, chunks,
                   question_embedding, semantic_chunks, text_chunks,
                   similar_chunks, context, test_context, max_length,
                   removals, result, fault, error, search_history>>

NextConstruct == Construct \/ EnvironChanges \/ Execute

SpecConstruct == InitConstruct /\ [][NextConstruct]_vars

----------------------------------------------------------------------------
(* LLMService.estimate_token_count and is_prompt_within_limits on their own *)

\* two texts of every length, so that texts of one length differ
PromptHeads == {<<>>, <<"a", "b", "c">>, <<"x", "y", "z">>}
PromptPads ==
    (0..MaxSmallText)
    \cup ((4 * TokenCeiling - CeilingMargin)..(4 * TokenCeiling + 1))
Prompts == {Text(h, p) : h \in PromptHeads, p \in PromptPads}

\* context items as _format_chunks_as_context builds them; formatted for the
\* service they are 12 and 13 characters long
LimitItem(content) ==
    [content |-> content, pad |-> 0,
     metadata |-> [page_number |-> 1, chunk_index |-> 0,
                   similarity_score |-> Round4(ScoreScale), document_id |-> 1]]
LimitContexts == {<<>>, <<LimitItem(<<>>)>>, <<LimitItem(<<"a">>)>>,
                  <<LimitItem(<<"a">>), LimitItem(<<>>)>>}

InitLimits ==
    /\ pc = "estimate"
    /\ prompt \in Prompts
    /\ context \in LimitContexts
    /\ tokens = 0
    /\ within_limits = FALSE
    /\ sub_limits = NoSubLimits
    /\ terms = <<>>
    /\ question = <<>>
    /\ limit = 0
    /\ chunks = ChunkTable
    /\ documents = DocumentTable
    /\ pdf_path = NoFile
    /\ force = FALSE
    /\ document = NoDocument
    /\ saved_document = NoDocument
    /\ question_embedding = <<>>
    /\ semantic_chunks = <<>>
    /\ text_chunks = <<>>
    /\ similar_chunks = <<>>
    /\ test_context = <<>>
    /\ max_length = DefaultMaxLength
    /\ removals = 0
    /\ response = "none"
    /\ result = "none"
    /\ fault = "none"
    /\ error = "none"
    /\ calls = NoCalls
    /\ search_history = 0
    /\ environ = DefaultEnviron
    /\ llm_service = select_service(DefaultEnviron)

\* estimate_token_count(prompt)
EstimateTokenCount ==
    /\ pc = "estimate"
    /\ tokens' = estimate_token_count(ContentLen(prompt))
    /\ pc' = "estimated"
    /\ UNCHANGED <<ingestion, sub_limits, terms, prompt, within_limits, environ,
                   llm_service, question, limit, chunks, question_embedding,
                   semantic_chunks, text_chunks, similar_chunks, context,
                   test_context, max_length, removals, response, result,
                   fault, error, calls, search_history>>

\* is_prompt_within_limits(prompt, context)
IsPromptWithinLimits ==
    /\ pc = "estimated"
    /\ within_limits' = is_prompt_within_limits(ContentLen(prompt), context)
    /\ pc' = "checked"
    /\ UNCHANGED <<ingestion, sub_limits, terms, prompt, tokens, environ, llm_service,
                   question, limit, chunks, question_embedding,
                   semantic_chunks, text_chunks, similar_chunks, context,
                   test_context, max_length, removals, response, result,
                   fault, error, calls, search_history>>

NextLimits == EstimateTokenCount \/ IsPromptWithinLimits

SpecLimits == InitLimits /\ [][NextLimits]_vars

----------------------------------------------------------------------------
(* _hybrid_search_chunks on its own, over a wide range of limits *)

WideLimits == (-MaxWideLimit)..MaxWideLimit

\* a query to which the first n rows are similar, each less than the one before
EmbeddingNear(n) ==
    [i \in 1..Len(ChunkTable) |-> IF i <= n THEN ScoreScale - i ELSE -SimStep]

InitSubLimits ==
    /\ pc = "embedded"
    /\ limit \in WideLimits
    /\ \E n \in 0..Len(ChunkTable) : question_embedding = EmbeddingNear(n)
    /\ question = <<"a", "l", "f", "a", " ", "b", "e", "t", "a">>
    /\ calls = [NoCalls EXCEPT !.embed = 1]
    /\ chunks = ChunkTable
    /\ documents = DocumentTable
    /\ pdf_path = NoFile
    /\ force = FALSE
    /\ document = NoDocument
    /\ saved_document = NoDocument
    /\ semantic_chunks = <<>>
    /\ text_chunks = <<>>
    /\ similar_chunks = <<>>
    /\ context = <<>>
    /\ test_context = <<>>
    /\ max_length = DefaultMaxLength
    /\ removals = 0
    /\ response = "none"
    /\ result = "none"
    /\ fault = "none"
    /\ error = "none"
    /\ search_history = 0
    /\ environ = DefaultEnviron
    /\ llm_service = select_service(DefaultEnviron)
    /\ sub_limits = NoSubLimits
    /\ terms = <<>>
    /\ prompt = Text(<<>>, 0)
    /\ tokens = 0
    /\ within_limits = FALSE

NextSubLimits == SemanticSearchOk \/ TextSearchOk

SpecSubLimits == InitSubLimits /\ [][NextSubLimits]_vars

----------------------------------------------------------------------------
(* _extract_key_terms on its own *)

\* words: a stop word in capitals, a stop word of three letters, a word of two
\* letters, a word in capitals, a word with an underscore and a digit
KeyWords == {<<"Q", "u", "e">>, <<"d", "a", "s">>, <<"a", "b">>,
             <<"A", "l", "f", "a">>, <<"a", "_", "1">>}
Separators == {<<" ">>, <<"-">>, <<"?", " ">>}

RECURSIVE Join(_, _)
Join(ws, sep) ==
    IF ws = <<>> THEN <<>>
    ELSE IF Len(ws) = 1 THEN ws[1]
    ELSE ws[1] \o sep \o Join(Tail(ws), sep)

KeyQuestions ==
    {Join(ws, sep) : ws \in SeqsUpTo(KeyWords, MaxWords), sep \in Separators}

InitKeyTerms ==
    /\ pc = "extract"
    /\ question \in KeyQuestions
    /\ terms = <<>>
    /\ limit = 0
    /\ chunks = ChunkTable
    /\ documents = DocumentTable
    /\ pdf_path = NoFile
    /\ force = FALSE
    /\ document = NoDocument
    /\ saved_document = NoDocument
    /\ question_embedding = <<>>
    /\ semantic_chunks = <<>>
    /\ text_chunks = <<>>
    /\ similar_chunks = <<>>
    /\ context = <<>>
    /\ test_context = <<>>
    /\ max_length = DefaultMaxLength
    /\ removals = 0
    /\ response = "none"
    /\ result = "none"
    /\ fault = "none"
    /\ error = "none"
    /\ calls = NoCalls
    /\ search_history = 0
    /\ environ = DefaultEnviron
    /\ llm_service = select_service(DefaultEnviron)
    /\ sub_limits = NoSubLimits
    /\ prompt = Text(<<>>, 0)
    /\ tokens = 0
    /\ within_limits = FALSE

\* key_terms = self._extract_key_terms(question)
ExtractKeyTerms ==
    /\ pc = "extract"
    /\ terms' = extract_key_terms(question)
    /\ pc' = "extracted"
    /\ UNCHANGED <<ingestion, sub_limits, prompt, tokens, within_limits, environ,
                   llm_service, question, limit, chunks, question_embedding,
                   semantic_chunks, text_chunks, similar_chunks, context,
                   test_context, max_length, removals, response, result,
                   fault, error, calls, search_history>>

SpecKeyTerms == InitKeyTerms /\ [][ExtractKeyTerms]_vars

----------------------------------------------------------------------------
(* search_text_chunks on its own *)

\* a term in three rows, a term in capitals in two rows, a term whose "_" the
\* ILIKE pattern reads as a wildcard, a term in no row
TermChoices == {<<"a", "l", "f", "a">>, <<"B", "e", "t", "a">>,
                <<"g", "_", "m">>, <<"z", "z", "z">>}

InitTextSearch ==
    /\ pc = "text_search"
    /\ terms \in SeqsUpTo(TermChoices, MaxTerms)
    /\ limit \in Limits
    /\ question = <<>>
    /\ chunks = ChunkTable
    /\ documents = DocumentTable
    /\ pdf_path = NoFile
    /\ force = FALSE
    /\ document = NoDocument
    /\ saved_document = NoDocument
    /\ question_embedding = <<>>
    /\ semantic_chunks = <<>>
    /\ text_chunks = <<>>
    /\ similar_chunks = <<>>
    /\ context = <<>>
    /\ test_context = <<>>
    /\ max_length = DefaultMaxLength
    /\ removals = 0
    /\ response = "none"
    /\ result = "none"
    /\ fault = "none"
    /\ error = "none"
    /\ calls = NoCalls
    /\ search_history = 0
    /\ environ = DefaultEnviron
    /\ llm_service = select_service(DefaultEnviron)
    /\ sub_limits = NoSubLimits
    /\ prompt = Text(<<>>, 0)
    /\ tokens = 0
    /\ within_limits = FALSE

\* search_text_chunks(key_terms, limit) returns
SearchTextChunks ==
    /\ pc = "text_search"
    /\ terms = <<>> \/ LimitAccepted(limit)
    /\ calls' = [calls EXCEPT !.lexical = @ + 1]
    /\ text_chunks' \in search_text_chunks(terms, limit)
    /\ pc' = "searched"
    /\ UNCHANGED <<ingestion, sub_limits, terms, prompt, tokens, within_limits, environ,
                   llm_service, question, limit, chunks, question_embedding,
                   semantic_chunks, similar_chunks, context, test_context,
                   max_length, removals, response, result, fault, error,
                   search_history>>

\* search_text_chunks(key_terms, limit) raises: the database fails, or refuses
\* a negative LIMIT
SearchTextChunksFails ==
    /\ pc = "text_search"
    /\ terms # <<>>
    /\ calls' = [calls EXCEPT !.lexical = @ + 1]
    /\ Raise("lexical")
    /\ UNCHANGED <<ingestion, sub_limits, terms, prompt, tokens, within_limits, environ,
                   llm_service, question, limit, chunks, question_embedding,
                   semantic_chunks, text_chunks, similar_chunks, context,
                   test_context, max_length, removals, response,
                   search_history>>

NextTextSearch == SearchTextChunks \/ SearchTextChunksFails

SpecTextSearch == InitTextSearch /\ [][NextTextSearch]_vars

----------------------------------------------------------------------------
(* truncate_context_if_needed on its own, one turn of its loop at a time *)

\* lengths of a context item's content
ItemLengths == {0, 1000, 16000, 40000}
TruncItems == {[content |-> <<>>, pad |-> n,
                metadata |-> [page_number |-> 1, chunk_index |-> 0,
                              similarity_score |-> 0, document_id |-> 1]]
                 : n \in ItemLengths}
MaxLengths == {100, 2000, DefaultMaxLength}

InitTruncate ==
    /\ pc = "truncating"
    /\ context \in SeqsUpTo(TruncItems, MaxContext)
    /\ test_context = context
    /\ question \in {<<>>, ChunkTable[1].content}
    /\ max_length \in MaxLengths
    /\ removals = 0
    /\ limit = 0
    /\ chunks = ChunkTable
    /\ documents = DocumentTable
    /\ pdf_path = NoFile
    /\ force = FALSE
    /\ document = NoDocument
    /\ saved_document = NoDocument
    /\ question_embedding = <<>>
    /\ semantic_chunks = <<>>
    /\ text_chunks = <<>>
    /\ similar_chunks = <<>>
    /\ response = "none"
    /\ result = "none"
    /\ fault = "none"
    /\ error = "none"
    /\ calls = NoCalls
    /\ search_history = 0
    /\ sub_limits = NoSubLimits
    /\ terms = <<>>
    /\ prompt = Text(<<>>, 0)
    /\ tokens = 0
    /\ within_limits = FALSE
    /\ environ = DefaultEnviron
    /\ llm_service = select_service(DefaultEnviron)

\* the loop ends (test_context is empty, or the prompt fits) and
\* test_context is returned
TruncateReturn ==
    /\ pc = "truncating"
    /\ TruncateLoopExits(test_context, question, max_length)
    /\ pc' = "truncated"
    /\ UNCHANGED <<ingestion, locals, environ, llm_service, fault, question, limit,
                   chunks, question_embedding, semantic_chunks, text_chunks,
                   similar_chunks, context, test_context, max_length,
                   removals, response, result, error, calls, search_history>>

\* the prompt is too long: test_context.pop()
TruncatePop ==
    /\ pc = "truncating"
    /\ ~TruncateLoopExits(test_context, question, max_length)
    /\ test_context' = Pop(test_context)
    /\ removals' = removals + 1
    /\ UNCHANGED <<ingestion, locals, environ, llm_service, fault, pc, question, limit,
                   chunks, question_embedding, semantic_chunks, text_chunks,
                   similar_chunks, context, max_length, response, result,
                   error, calls, search_history>>

NextTruncate == TruncateReturn \/ TruncatePop

SpecTruncate == InitTruncate /\ [][NextTruncate]_vars

----------------------------------------------------------------------------
(* Fair version of the truncation loop: synchronous code runs on *)

SpecTruncateFair == SpecTruncate /\ WF_vars(NextTruncate)

----------------------------------------------------------------------------
(* IngestPDFUseCase.execute, called again and again on one database *)

\* the PDF files on disk: a.pdf and copy.pdf hold the same bytes and lie in the
\* working directory, c.pdf and d.pdf lie elsewhere, d.pdf has blank pages
\* only, gone.pdf does not exist
PdfFiles == {
    [filename |-> "a.pdf", exists |-> TRUE, in_cwd |-> TRUE, content |-> "one",
     chunks |-> << [content |-> <<"A", "l", "f", "a">>, page_number |-> 1],
                   [content |-> <<"b", "e", "t", "a">>, page_number |-> 2] >>],
    [filename |-> "copy.pdf", exists |-> TRUE, in_cwd |-> TRUE, content |-> "one",
     chunks |-> << [content |-> <<"A", "l", "f", "a">>, page_number |-> 1],
                   [content |-> <<"b", "e", "t", "a">>, page_number |-> 2] >>],
    [filename |-> "c.pdf", exists |-> TRUE, in_cwd |-> FALSE, content |-> "three",
     chunks |-> << [content |-> <<"g", "a", "m", "a">>, page_number |-> 1] >>],
    [filename |-> "d.pdf", exists |-> TRUE, in_cwd |-> FALSE, content |-> "four",
     chunks |-> << >>],
    [filename |-> "gone.pdf", exists |-> FALSE, in_cwd |-> FALSE, content |-> "",
     chunks |-> << >>] }

\* Document._generate_content_hash: the digest of the file named by the
\* document's filename, which is the base name of the path and so is looked up
\* in the working directory; the empty string when no such file is there
generate_content_hash(file) ==
    IF file.in_cwd THEN <<"sha256", file.content>> ELSE <<>>

\* PDFLoaderService.load_pdf: a Document without id and with no chunks counted
load_pdf(file) ==
    DocumentRow(0, file.filename, generate_content_hash(file), 0)

\* get_document_by_hash: the row with that hash (content_hash is unique), or None
get_document_by_hash(table, h) ==
    LET found == {i \in 1..Len(table) : table[i].content_hash = h}
    IN  IF found = {} THEN NoDocument ELSE table[CHOOSE i \in found : TRUE]

\* save_document: the stored document of that hash if there is one, else a
\* new row with the next id
save_document(table, doc) ==
    LET existing_doc == get_document_by_hash(table, doc.content_hash)
        row == [doc EXCEPT !.id = Len(table) + 1]
    IN  IF existing_doc # NoDocument
        THEN [document |-> existing_doc, table |-> table]
        ELSE [document |-> row, table |-> Append(table, row)]

\* save_chunks after chunk.document_id = saved_document.id: one new row per
\* chunk, with the next ids, chunk_index counting from 0
save_chunks(table, file_chunks, document_id) ==
    table \o [i \in 1..Len(file_chunks) |->
                Row(Len(table) + i, document_id, i - 1, file_chunks[i].content, 0,
                    file_chunks[i].page_number)]

\* update_document: the row with the document's id takes its filename and
\* total_chunks
update_document(table, doc) ==
    [i \in 1..Len(table) |->
        IF table[i].id = doc.id
        THEN [table[i] EXCEPT !.filename = doc.filename,
                              !.total_chunks = doc.total_chunks]
        ELSE table[i]]

\* what the search use case holds, untouched by an ingestion
search_state == <<question, limit, question_embedding, semantic_chunks,
                  text_chunks, similar_chunks, context, test_context, max_length,
                  removals, response, result, fault, calls, search_history,
                  environ, llm_service, locals>>

InitIngest ==
    /\ pc = "idle"
    /\ question = <<>>
    /\ limit = 0
    /\ chunks = <<>>
    /\ documents = <<>>
    /\ pdf_path = NoFile
    /\ force = FALSE
    /\ document = NoDocument
    /\ saved_document = NoDocument
    /\ question_embedding = <<>>
    /\ semantic_chunks = <<>>
    /\ text_chunks = <<>>
    /\ similar_chunks = <<>>
    /\ context = <<>>
    /\ test_context = <<>>
    /\ max_length = DefaultMaxLength
    /\ removals = 0
    /\ response = "none"
    /\ result = "none"
    /\ fault = "none"
    /\ error = "none"
    /\ calls = NoCalls
    /\ search_history = 0
    /\ environ = DefaultEnviron
    /\ llm_service = select_service(DefaultEnviron)
    /\ sub_limits = NoSubLimits
    /\ terms = <<>>
    /\ prompt = Text(<<>>, 0)
    /\ tokens = 0
    /\ within_limits = FALSE

\* execute raises e: nothing is returned
IngestRaise(e) ==
    /\ error' = e
    /\ saved_document' = NoDocument
    /\ pc' = "idle"

\* execute(pdf_path, force=force) is called and _load_pdf returns
LoadPdf ==
    /\ pc = "idle"
    /\ Len(chunks) < MaxChunkRows
    /\ \E file \in {f \in PdfFiles : f.exists}, b \in BOOLEAN :
          /\ pdf_path' = file
          /\ force' = b
          /\ document' = load_pdf(file)
    /\ saved_document' = NoDocument
    /\ error' = "none"
    /\ pc' = "loaded"
    /\ UNCHANGED <<search_state, chunks, documents>>

\* execute(pdf_path, force=force) is called on a path that does not exist
LoadPdfFails ==
    /\ pc = "idle"
    /\ \E file \in {f \in PdfFiles : ~f.exists}, b \in BOOLEAN :
          /\ pdf_path' = file
          /\ force' = b
    /\ document' = NoDocument
    /\ IngestRaise("FileNotFoundError")
    /\ UNCHANGED <<search_state, chunks, documents>>

\* force is false and _check_existing_document finds the hash: execute returns
\* the stored document
CheckExistingFound ==
    /\ pc = "loaded"
    /\ ~force
    /\ get_document_by_hash(documents, document.content_hash) # NoDocument
    /\ saved_document' = get_document_by_hash(documents, document.content_hash)
    /\ pc' = "idle"
    /\ UNCHANGED <<search_state, chunks, documents, pdf_path, force, document,
                   error>>

\* force is true, or _check_existing_document finds nothing: the pages are
\* extracted and chunked
CheckExistingNone ==
    /\ pc = "loaded"
    /\ force \/ get_document_by_hash(documents, document.content_hash) = NoDocument
    /\ pc' = "chunked"
    /\ UNCHANGED <<search_state, chunks, documents, ingestion, error>>

\* the lookup of _check_existing_document raises: it logs a warning and
\* returns None, and execute goes on
CheckExistingFails ==
    /\ pc = "loaded"
    /\ ~force
    /\ pc' = "chunked"
    /\ UNCHANGED <<search_state, chunks, documents, ingestion, error>>

\* _generate_embeddings_for_chunks returns
GenerateEmbeddingsOk ==
    /\ pc = "chunked"
    /\ pc' = "embedded"
    /\ UNCHANGED <<search_state, chunks, documents, ingestion, error>>

\* the embedding service raises
GenerateEmbeddingsFails ==
    /\ pc = "chunked"
    /\ IngestRaise("embedding")
    /\ UNCHANGED <<search_state, chunks, documents, pdf_path, force, document>>

\* _save_to_database, one transaction: save_document, save_chunks,
\* update_document with the number of chunks just saved, commit
SaveToDatabase ==
    /\ pc = "embedded"
    /\ LET saved == save_document(documents, document)
           saved_chunks == pdf_path.chunks
           updated_document ==
               [saved.document EXCEPT !.total_chunks = Len(saved_chunks)]
       IN  /\ chunks' = save_chunks(chunks, saved_chunks, saved.document.id)
           /\ documents' = update_document(saved.table, updated_document)
           /\ saved_document' = updated_document
    /\ pc' = "idle"
    /\ UNCHANGED <<search_state, pdf_path, force, document, error>>

\* a statement of the transaction raises: the session is rolled back
SaveToDatabaseFails ==
    /\ pc = "embedded"
    /\ IngestRaise("database")
    /\ UNCHANGED <<search_state, chunks, documents, pdf_path, force, document>>

NextIngest ==
    \/ LoadPdf
    \/ LoadPdfFails
    \/ CheckExistingFound
    \/ CheckExistingNone
    \/ CheckExistingFails
    \/ GenerateEmbeddingsOk
    \/ GenerateEmbeddingsFails
    \/ SaveToDatabase
    \/ SaveToDatabaseFails

SpecIngest == InitIngest /\ [][NextIngest]_vars

----------------------------------------------------------------------------
(* Properties *)

\* _hybrid_search_chunks has returned to execute
Retrieved == calls.lexical = 1 /\ fault # "lexical"

Hashes(seq) == {seq[i].chunk.content_hash : i \in 1..Len(seq)}
Range(seq) == {seq[i] : i \in 1..Len(seq)}

\* C1: when the hybrid retrieval returns no result, execute returns exactly
\* the fallback text and the language model is not invoked in that call.
C1_NoMatchFallback ==
    (Retrieved /\ similar_chunks = <<>>) =>
        /\ pc = "done"
        /\ result = Fallback
        /\ error = "none"
        /\ calls.llm = 0
        /\ calls.client = 0

C1_Witness ==
    /\ Retrieved
    /\ similar_chunks = <<>>
    /\ result = Fallback
    /\ extract_key_terms(question) # <<>>

\* C2: execute called with an empty or whitespace-only question is rejected
\* with a validation error before any collaborator is called: the embedding
\* client, the vector store and the language model are invoked zero times.
C2_BlankQuestionRejected ==
    IsBlank(question) =>
        /\ calls.embed = 0
        /\ calls.semantic = 0
        /\ calls.lexical = 0
        /\ calls.llm = 0
        /\ pc \in {"start", "raised"}
        /\ pc = "raised" => error = "validation"

\* C3: a merged entry whose fingerprint occurs in the semantic list is a
\* (chunk, score) pair of the semantic list, so it carries a semantic score
\* of that fingerprint and never a lexical one; a merged entry comes from the
\* lexical list only when its fingerprint is absent from the semantic list.
C3_SemanticPriority ==
    pc = "combined" =>
        \A i \in 1..Len(similar_chunks) :
            LET x == similar_chunks[i]
            IN  IF x.chunk.content_hash \in Hashes(semantic_chunks)
                THEN x \in Range(semantic_chunks)
                ELSE x \in Range(text_chunks)

C3_Witness ==
    /\ pc = "combined"
    /\ \E i \in 1..Len(similar_chunks) :
          LET h == similar_chunks[i].chunk.content_hash
          IN  /\ h \in Hashes(semantic_chunks)
              /\ h \in Hashes(text_chunks)
              /\ \A t \in Range(text_chunks) :
                    t.chunk.content_hash = h => t.score # similar_chunks[i].score
    /\ \E i \in 1..Len(similar_chunks) :
          similar_chunks[i].chunk.content_hash \notin Hashes(semantic_chunks)

\* C4: whatever the two input lists, repeated fingerprints included, the
\* merged list never holds two entries with the same content fingerprint.
C4_NoDuplicateFingerprint ==
    pc = "combined" =>
        \A i, j \in 1..Len(similar_chunks) :
            i # j => similar_chunks[i].chunk.content_hash
                        # similar_chunks[j].chunk.content_hash

C4_Witness ==
    /\ pc = "combined"
    /\ Len(similar_chunks) = 2
    /\ \E i, j \in 1..Len(semantic_chunks) :
          /\ i # j
          /\ semantic_chunks[i].chunk.content_hash
                = semantic_chunks[j].chunk.content_hash
    /\ \E i, j \in 1..Len(text_chunks) :
          /\ i # j
          /\ text_chunks[i].chunk.content_hash = text_chunks[j].chunk.content_hash
          /\ text_chunks[i].chunk.content_hash \notin Hashes(semantic_chunks)

\* C5: the merged, truncated list is sorted by score, highest first, whatever
\* the order of the input lists.
C5_SortedByScore ==
    pc = "combined" =>
        \A i \in 1..(Len(similar_chunks) - 1) :
            similar_chunks[i].score >= similar_chunks[i + 1].score

C5_Witness ==
    /\ pc = "combined"
    /\ Len(similar_chunks) = 2
    /\ similar_chunks[1].score > similar_chunks[2].score
    /\ Len(semantic_chunks) = 2
    /\ semantic_chunks[1].score < semantic_chunks[2].score
    /\ text_chunks = <<>>

\* C6: for a limit N >= 0 the hybrid retrieval returns at most N results; for
\* N = 0 both primitives are called with an accepted sub-limit (the retrieval
\* itself raises nothing) and the result is the empty list.
C6_LimitRespected ==
    /\ (Retrieved /\ limit >= 0) => Len(similar_chunks) <= limit
    /\ (limit >= 0 /\ pc = "embedded") => semantic_limit(limit) >= 1
    /\ (limit >= 0 /\ pc = "semantic_done") =>
          text_limit(limit, semantic_chunks) >= 1
    /\ (limit = 0 /\ pc = "embedded") =>
          /\ LimitAccepted(semantic_limit(limit))
          /\ search_similar_chunks(question_embedding, semantic_limit(limit), 0) # {}
    /\ (limit = 0 /\ pc = "semantic_done") =>
          /\ LimitAccepted(text_limit(limit, semantic_chunks))
          /\ search_text_chunks(extract_key_terms(question),
                                text_limit(limit, semantic_chunks)) # {}
    /\ (limit = 0 /\ Retrieved) => similar_chunks = <<>> /\ error = "none"

C6_Witness ==
    /\ Retrieved
    /\ limit = 0
    /\ semantic_chunks # <<>>
    /\ text_chunks # <<>>
    /\ similar_chunks = <<>>
    /\ pc = "done"

\* C7: when saving the search history fails, execute still returns the
\* model's answer unchanged and raises nothing.
C7_HistoryFailureSwallowed ==
    fault = "history" =>
        /\ pc = "done"
        /\ error = "none"
        /\ result = response
        /\ response \in Answers

C7_Witness ==
    /\ fault = "history"
    /\ calls.history = 1
    /\ search_history = 0
    /\ pc = "done"
    /\ result \in Answers

\* C8: when the embedding call, a retrieval call or the generation call
\* fails, execute raises, returns nothing (not even the fallback text) and
\* invokes no later stage.
C8_FailureAborts ==
    fault \in {"embedding", "semantic", "lexical", "generation"} =>
        /\ pc = "raised"
        /\ error = fault
        /\ result = "none"
        /\ calls.history = 0
        /\ search_history = 0
        /\ fault # "generation" => calls.llm = 0 /\ calls.client = 0
        /\ fault \in {"embedding", "semantic"} => calls.lexical = 0
        /\ fault = "embedding" => calls.semantic = 0

C8_Witness ==
    /\ fault = "generation"
    /\ calls.client = 1
    /\ pc = "raised"
    /\ result = "none"
    /\ search_history = 0

\* C9: when the semantic primitive raises, the hybrid retrieval fails with
\* that error: the lexical primitive is not invoked and no lexical-only
\* result list is produced.
C9_NoLexicalFallback ==
    fault = "semantic" =>
        /\ pc = "raised"
        /\ error = "semantic"
        /\ calls.lexical = 0
        /\ text_chunks = <<>>
        /\ similar_chunks = <<>>
        /\ result = "none"

C9_Witness ==
    /\ fault = "semantic"
    /\ pc = "raised"
    /\ calls.semantic = 1
    /\ \E r \in search_text_chunks(extract_key_terms(question), 1) : r # <<>>

\* the prompt rendered with item j of context alone is longer than max_length
ItemTooLong(j) ==
    ~validate_prompt_length(FormatPromptLen(question, <<context[j]>>), max_length)

\* C10: truncate_context_if_needed terminates after at most len(context)
\* removals and returns a prefix of context, never longer than context; when
\* a single item already makes the prompt exceed max_length the result stops
\* short of that item, so it is strictly shorter than the input.
C10_TruncationTerminates ==
    /\ [](/\ removals <= Len(context)
          /\ removals = Len(context) - Len(test_context)
          /\ IsPrefix(test_context, context)
          /\ pc = "truncated" =>
                \A j \in 1..Len(context) :
                    ItemTooLong(j) => /\ Len(test_context) < j
                                      /\ Len(test_context) < Len(context))
    /\ <>(pc = "truncated")

C10_Witness ==
    /\ pc = "truncated"
    /\ Len(context) = 3
    /\ ItemTooLong(2)
    /\ ~ItemTooLong(1)
    /\ removals = 2
    /\ Len(test_context) = 1


\* C11: when the question yields no key term, the lexical search returns no
\* result and does not fail, and the hybrid result is the semantic results
\* with one entry per fingerprint, highest score first, cut to the limit.
C11_NoTermsSemanticOnly ==
    (calls.lexical = 1 /\ extract_key_terms(question) = <<>>) =>
        /\ fault # "lexical"
        /\ text_chunks = <<>>
        /\ similar_chunks =
              Slice(SortByScoreDesc(AddSemantic(<<>>, semantic_chunks)), limit)
        /\ Hashes(similar_chunks) \subseteq Hashes(semantic_chunks)
        /\ \A i, j \in 1..Len(similar_chunks) :
              /\ i < j => similar_chunks[i].score >= similar_chunks[j].score
              /\ i # j => similar_chunks[i].chunk.content_hash
                              # similar_chunks[j].chunk.content_hash

C11_Witness ==
    /\ calls.lexical = 1
    /\ extract_key_terms(question) = <<>>
    /\ question # <<>>
    /\ Len(semantic_chunks) = 2
    /\ Len(similar_chunks) = 1
    /\ limit = MaxLimit

\* C12: _format_chunks_as_context returns one context item per (chunk, score)
\* pair, in the order of the pairs, each with its chunk's content, page number
\* and chunk index and the score rounded to 4 decimals; it changes neither the
\* list it is given nor a chunk, and a second application returns what the
\* first returned.
C12_FormatPureMap ==
    /\ [](pc \in {"formatted", "formatted_twice"} =>
            /\ Len(context) = Len(similar_chunks)
            /\ \A i \in 1..Len(context) :
                 LET item == context[i]
                     pair == similar_chunks[i]
                     r == item.metadata.similarity_score
                     d == ScoreScale * r - 10000 * pair.score
                 IN  /\ item.content = pair.chunk.content
                     /\ item.pad = pair.chunk.pad
                     /\ item.metadata.page_number = pair.chunk.page_number
                     /\ item.metadata.chunk_index = pair.chunk.chunk_index
                     /\ 2 * d <= ScoreScale
                     /\ 2 * d >= -ScoreScale)
    /\ [][(pc = "format" \/ pc = "formatted") =>
            (similar_chunks' = similar_chunks /\ chunks' = chunks)]_vars
    /\ [][pc = "formatted" => context' = context]_vars

C12_Witness ==
    /\ pc = "formatted_twice"
    /\ Len(context) = 2
    /\ context[1].metadata.similarity_score = 6667
    /\ context[2].metadata.similarity_score = 833
    /\ context[1].metadata.page_number # context[2].metadata.page_number

\* the collaborators of execute, in the order of its statements
Stages == <<"embed", "semantic", "lexical", "llm", "history">>

\* C13: execute calls its collaborators in the order embedding, semantic
\* search, lexical search, then (only with a non-empty result list, once the
\* context is assembled) the language model, then the history; each is called
\* at most once, a stage is called only when every earlier one has returned,
\* and nothing is called again after a failure.
C13_CallOrder ==
    /\ [](/\ \A i \in 1..Len(Stages) :
              /\ calls[Stages[i]] <= 1
              /\ (i > 1 /\ calls[Stages[i]] = 1) => calls[Stages[i - 1]] = 1
          /\ calls.semantic = 1 => (fault # "embedding" /\ question_embedding # <<>>)
          /\ calls.lexical = 1 => fault # "semantic"
          /\ calls.llm = 1 =>
                /\ fault # "lexical"
                /\ similar_chunks # <<>>
                /\ context = PromptContext(question,
                                format_chunks_as_context(similar_chunks))
          /\ calls.history = 1 => (response \in Answers /\ error = "none"))
    /\ [][calls' # calls =>
            /\ fault = "none"
            /\ \E i \in 1..Len(Stages) :
                 /\ calls'[Stages[i]] = calls[Stages[i]] + 1
                 /\ \A j \in 1..Len(Stages) :
                      j # i => calls'[Stages[j]] = calls[Stages[j]]]_vars

C13_Witness ==
    /\ pc = "done"
    /\ fault = "none"
    /\ \A i \in 1..Len(Stages) : calls[Stages[i]] = 1
    /\ result \in Answers

\* the provider the selection rule names: the preferred one when its key is
\* set, otherwise openai when its key is set, otherwise google, otherwise none
ExpectedService(env) ==
    LET openai == env.OPENAI_API_KEY = "set"
        google == env.GOOGLE_API_KEY = "set"
        wish == IF env.preferred_file.exists
                THEN Lower(Strip(env.preferred_file.text)) ELSE NoService
    IN  IF wish = OpenAI /\ openai THEN OpenAI
        ELSE IF wish = Google /\ google THEN Google
        ELSE IF openai THEN OpenAI
        ELSE IF google THEN Google
        ELSE NoService

\* C14: constructing the use case selects the provider by that rule and
\* raises when there is none; the missing configuration is reported then and
\* never during a search: every later execute uses the provider chosen at
\* construction, whatever the environment has become.
C14_ProviderFixedAtConstruction ==
    /\ [][pc = "unconstructed" =>
            IF ExpectedService(environ) = NoService
            THEN pc' = "construct_failed" /\ error' = "config"
                 /\ llm_service' = NoService
            ELSE pc' = "ready" /\ error' = "none"
                 /\ llm_service' = ExpectedService(environ)]_vars
    /\ [][pc = "ready" =>
            /\ pc' = "ready"
            /\ error' = "none"
            /\ llm_service' = llm_service
            /\ calls' # calls => response'.service = llm_service]_vars
    /\ [](error = "config" => (pc = "construct_failed" /\ calls = NoCalls))

C14_Witness ==
    /\ pc = "ready"
    /\ calls.llm = MaxExecutes
    /\ get_available_services(environ) = <<>>
    /\ llm_service = Google
    /\ response.service = Google

\* C15: estimate_token_count(text) is len(text) / 4 rounded down, 0 for the
\* empty text; the length of the text alone decides it.
C15_TokenEstimateIsFloor ==
    pc \in {"estimated", "checked"} =>
        /\ 4 * tokens <= ContentLen(prompt)
        /\ ContentLen(prompt) < 4 * tokens + 4
        /\ ContentLen(prompt) = 0 => tokens = 0
        /\ \A other \in Prompts :
              ContentLen(other) = ContentLen(prompt) =>
                  estimate_token_count(ContentLen(other)) = tokens

C15_Witness ==
    /\ pc = "estimated"
    /\ prompt.content = <<"x", "y", "z">>
    /\ ContentLen(prompt) = 7
    /\ tokens = 1

\* the length of the context as format_context_for_prompt writes it: parts
\* "i. content (Page p)" joined by two newlines
ContextTextLen(ctx) ==
    IF ctx = <<>> THEN 0
    ELSE SeqSum([i \in 1..Len(ctx) |->
                    Digits(i) + Len(<<".", " ">>) + ContentLen(ctx[i])
                    + Len(<<" ", "(", "P", "a", "g", "e", " ">>)
                    + Digits(ctx[i].metadata.page_number) + Len(<<")">>)])
         + 2 * (Len(ctx) - 1)

C17_SemanticSubLimit ==
    calls.semantic = 1 =>
        /\ sub_limits.semantic = Max(1, (7 * limit) \div 10)
        /\ sub_limits.semantic >= 1

WordRuns(q) ==
    {r \in (1..Len(q)) \X (1..Len(q)) :
        /\ r[1] <= r[2]
        /\ \A i \in r[1]..r[2] : q[i] \in WordChars
        /\ r[1] = 1 \/ q[r[1] - 1] \notin WordChars
        /\ r[2] = Len(q) \/ q[r[2] + 1] \notin WordChars}

\* the tokens that count: three characters or more, no stop word once lowered
KeyRuns(q) ==
    {r \in WordRuns(q) :
        /\ r[2] - r[1] + 1 >= 3
        /\ Lower(SubSeq(q, r[1], r[2])) \notin stop_words}

\* C19: _extract_key_terms returns the word tokens of the question that have
\* three characters or more and are no stop word, lower-cased, in the order
\* they occur and with their repeats; the list is empty when none qualifies.
C19_KeyTerms ==
    pc = "extracted" =>
        /\ Len(terms) = Cardinality(KeyRuns(question))
        /\ \E f \in [1..Len(terms) -> KeyRuns(question)] :
              /\ \A i, j \in 1..Len(terms) : i < j => f[i][1] < f[j][1]
              /\ \A i \in 1..Len(terms) :
                    terms[i] = Lower(SubSeq(question, f[i][1], f[i][2]))
        /\ \A i \in 1..Len(terms) :
              /\ terms[i] = Lower(terms[i])
              /\ Len(terms[i]) >= 3
              /\ terms[i] \notin stop_words

C19_Witness ==
    /\ pc = "extracted"
    /\ Len(terms) = 2
    /\ terms[1] = terms[2]
    /\ terms[1] # SubSeq(question, 1, Len(terms[1]))
    /\ Cardinality(WordRuns(question)) = MaxWords

\* term occurs in the content of chunk c, letter case aside
OccursIn(term, c) ==
    LET txt == c.content \o [i \in 1..Min(c.pad, Len(term)) |-> "."]
    IN  \E off \in 0..(Len(txt) - Len(term)) :
            \A i \in 1..Len(term) : LowerChar(term[i]) = LowerChar(txt[off + i])

\* C20: every result of search_text_chunks(terms, limit) has the score
\* (number of entries of terms that occur in the chunk's content, letter case
\* aside) / (number of entries of terms), a number of [0, 1]; there are at
\* most limit results (limit being a count, 0 or more: the database refuses a
\* negative one).
C20_LexicalScore ==
    pc = "searched" =>
        /\ limit >= 0 => Len(text_chunks) <= limit
        /\ \A i \in 1..Len(text_chunks) :
              LET r == text_chunks[i]
                  matched == {t \in 1..Len(terms) : OccursIn(terms[t], r.chunk)}
              IN  /\ r.score * Len(terms) = Cardinality(matched) * ScoreScale
                  /\ r.score >= 0
                  /\ r.score <= ScoreScale

C20_Witness ==
    /\ pc = "searched"
    /\ Len(terms) = 3
    /\ terms[2] = terms[3]
    /\ Len(text_chunks) = limit
    /\ \E i \in 1..Len(text_chunks) : text_chunks[i].score = 0
    /\ \E i \in 1..Len(text_chunks) : 3 * text_chunks[i].score = 2 * ScoreScale

\* the scores of a result list never rise from one entry to the next
NonIncreasing(seq) ==
    \A i \in 1..(Len(seq) - 1) : seq[i].score >= seq[i + 1].score

\* C21: each retrieval primitive returns its list in rank order: the scores
\* of search_similar_chunks (ascending cosine distance) and of
\* search_text_chunks (sorted before returning) never rise along the list.
C21_RankOrder ==
    /\ NonIncreasing(semantic_chunks)
    /\ NonIncreasing(text_chunks)
    /\ \A i \in 1..Len(semantic_chunks) :
          semantic_chunks[i].score = question_embedding[semantic_chunks[i].chunk.id]

C21_Witness ==
    /\ calls.lexical = 1
    /\ Len(semantic_chunks) = Len(ChunkTable)
    /\ semantic_chunks[1].score > semantic_chunks[Len(ChunkTable)].score
    /\ Len(text_chunks) = Len(ChunkTable)
    /\ text_chunks[1].score > text_chunks[Len(ChunkTable)].score
    /\ text_chunks[1].chunk.id = Len(ChunkTable)

\* the prompt rendered with the first k items of the context fits max_length
PrefixFits(k) ==
    FormatPromptLen(question, SubSeq(context, 1, k)) <= max_length

\* C22: truncate_context_if_needed drops items from the end only and returns
\* the longest non-empty prefix of the context whose rendered prompt is at
\* most max_length characters long, the empty list when there is none (even
\* when the prompt without context is too long as well) and the whole
\* context when the full prompt fits; the caller's list is left as it was.
C22_LongestFittingPrefix ==
    /\ [](pc = "truncated" =>
            /\ IsPrefix(test_context, context)
            /\ test_context # <<>> => PrefixFits(Len(test_context))
            /\ \A k \in 1..Len(context) :
                  k > Len(test_context) => ~PrefixFits(k)
            /\ (context # <<>> /\ PrefixFits(Len(context))) =>
                  test_context = context)
    /\ [][context' = context]_vars

C22_Witness ==
    /\ pc = "truncated"
    /\ Len(context) = MaxContext
    /\ Len(test_context) = 1
    /\ test_context[1].pad > 0
    /\ max_length = DefaultMaxLength

\* the context execute formatted from the retrieval result, before any
\* truncation
FullContext == format_chunks_as_context(similar_chunks)

\* C23: the budget check and the truncation of _generate_ai_response make
\* sure that generate_response is not handed a prompt it rejects for its
\* size (more than 32000 characters, or a token estimate of 30000 or more)
\* whenever some prefix of the context, the empty one included, gives a
\* prompt it accepts.
C23_PromptWithinBudget ==
    (/\ pc = "generating"
     /\ \E k \in 0..Len(FullContext) :
           PromptAccepted(question, SubSeq(FullContext, 1, k)))
        => PromptAccepted(question, context)

C25_NoSimilarityFloor ==
    (calls.semantic = 1 /\ fault # "semantic") =>
        /\ Len(semantic_chunks) = Min(sub_limits.semantic, Len(chunks))
        /\ \A i \in 1..Len(semantic_chunks) : \A j \in 1..Len(chunks) :
              (\A n \in 1..Len(semantic_chunks) : semantic_chunks[n].chunk.id # j)
                  => question_embedding[j] <= semantic_chunks[i].score

\* the positions of a list that hold fingerprint h
Positions(seq, h) == {i \in 1..Len(seq) : seq[i].chunk.content_hash = h}

LastOf(seq, h) == seq[CHOOSE i \in Positions(seq, h) : \A j \in Positions(seq, h) : j <= i]

FirstOf(seq, h) == seq[CHOOSE i \in Positions(seq, h) : \A j \in Positions(seq, h) : i <= j]

\* C26: a merged entry whose fingerprint occurs in the semantic list is the
\* LAST semantic entry of that fingerprint, chunk and score (later entries
\* overwrite earlier ones), so when the semantic list is in rank order its
\* score is the lowest of that fingerprint's semantic scores; a merged entry
\* whose fingerprint occurs only in the lexical list is the FIRST lexical
\* entry of that fingerprint.
C26_DuplicateResolution ==
    pc = "combined" =>
        \A i \in 1..Len(similar_chunks) :
            LET x == similar_chunks[i]
                h == x.chunk.content_hash
            IN  IF h \in Hashes(semantic_chunks)
                THEN /\ x = LastOf(semantic_chunks, h)
                     /\ NonIncreasing(semantic_chunks) =>
                            \A j \in Positions(semantic_chunks, h) :
                                x.score <= semantic_chunks[j].score
                ELSE x = FirstOf(text_chunks, h)

\* both cases at once is not required: a rank-sorted semantic list holding one
\* fingerprint twice with different chunks and scores, whose entry survives
C26_Witness ==
    /\ pc = "combined"
    /\ NonIncreasing(semantic_chunks)
    /\ \E i \in 1..Len(similar_chunks) :
          LET h == similar_chunks[i].chunk.content_hash
          IN  /\ Cardinality(Positions(semantic_chunks, h)) = 2
              /\ FirstOf(semantic_chunks, h).score > LastOf(semantic_chunks, h).score
              /\ FirstOf(semantic_chunks, h).chunk # LastOf(semantic_chunks, h).chunk

\* a fingerprint met only in the lexical list, twice, with different entries
C26_WitnessLexical ==
    /\ pc = "combined"
    /\ \E i \in 1..Len(similar_chunks) :
          LET h == similar_chunks[i].chunk.content_hash
          IN  /\ h \notin Hashes(semantic_chunks)
              /\ Cardinality(Positions(text_chunks, h)) = 2
              /\ FirstOf(text_chunks, h) # LastOf(text_chunks, h)

\* the score-sorted merged list of the two retrieved lists, nothing removed
Merged == SortByScoreDesc(AddText(AddSemantic(<<>>, semantic_chunks), text_chunks))

RetrievalFaults == {"embedding", "semantic", "lexical"}

\* C27: with a negative limit the hybrid retrieval does not raise on account
\* of the limit (both primitives are called with a LIMIT the database accepts)
\* and its result is the score-sorted merged list without its last |limit|
\* entries, so it is empty exactly when the merged list holds at most |limit|
\* entries.
C27_NegativeLimit ==
    limit < 0 =>
        /\ calls.semantic = 1 => LimitAccepted(sub_limits.semantic)
        /\ calls.lexical = 1 => LimitAccepted(sub_limits.text)
        /\ (calls.lexical = 1 /\ fault \notin RetrievalFaults) =>
              /\ similar_chunks = SubSeq(Merged, 1, Max(0, Len(Merged) - (0 - limit)))
              /\ similar_chunks = <<>> <=> Len(Merged) <= 0 - limit

\* limit = -1, two distinct chunks found, one result returned
C27_Witness ==
    /\ limit = 0 - 1
    /\ calls.lexical = 1
    /\ fault \notin RetrievalFaults
    /\ Len(Merged) = 2
    /\ Len(similar_chunks) = 1

\* the number of entries of terms that occur in a chunk's content
MatchCount(c) == Cardinality({t \in 1..Len(terms) : OccursIn(terms[t], c)})

\* C28: search_text_chunks(terms, limit) returns the limit best lexical
\* matches: a stored chunk that matches a term and is left out of the result
\* never has a strictly higher match score than a chunk of the result.
C28_BestLexicalMatches ==
    pc = "searched" =>
        \A i \in 1..Len(chunks) :
            (/\ MatchCount(chunks[i]) >= 1
             /\ \A j \in 1..Len(text_chunks) : text_chunks[j].chunk.id # chunks[i].id)
            => \A j \in 1..Len(text_chunks) :
                   MatchCount(chunks[i]) <= MatchCount(text_chunks[j].chunk)

\* the total content length of a context
ContentTotal(ctx) == SeqSum([i \in 1..Len(ctx) |-> ContentLen(ctx[i])])

\* floor(len(rendered prompt) / 4) + floor(len(service-formatted context) / 4)
\* for the untruncated context
BudgetEstimate ==
    (FormatPromptLen(question, FullContext) \div 4) + (ContextTextLen(FullContext) \div 4)

\* C29: the budget check of _generate_ai_response is applied to the prompt
\* that already embeds the rendered context, together with the context: the
\* estimate is floor(len(prompt)/4) + floor(len(formatted context)/4), which
\* counts the content of every context item twice; the context is truncated
\* exactly when this estimate reaches the ceiling, whatever the character
\* length of the rendered prompt.
C29_BudgetCountsContextTwice ==
    pc = "generating" =>
        /\ estimate_prompt_tokens(FormatPromptLen(question, FullContext), FullContext)
              = BudgetEstimate
        /\ 4 * BudgetEstimate >= 2 * ContentTotal(FullContext)
        /\ BudgetEstimate < TokenCeiling => context = FullContext
        /\ BudgetEstimate >= TokenCeiling =>
              /\ context = truncate_context_if_needed(FullContext, question,
                                                      DefaultMaxLength)
              /\ context # FullContext

\* a rendered prompt longer than the character limit whose estimate is below
\* the ceiling: the context is left as it is
C29_Witness ==
    /\ pc = "generating"
    /\ FormatPromptLen(question, FullContext) > DefaultMaxLength
    /\ BudgetEstimate < TokenCeiling
    /\ context = FullContext

\* an estimate at or above the ceiling only because the context counts twice
C29_WitnessTruncated ==
    /\ pc = "generating"
    /\ FormatPromptLen(question, FullContext) \div 4 < TokenCeiling
    /\ BudgetEstimate >= TokenCeiling
    /\ context # FullContext

\* the number of rows of the chunks table that belong to a document
StoredChunks(id) == Cardinality({k \in 1..Len(chunks) : chunks[k].document_id = id})

\* at most one document row per content hash
OneRowPerHash ==
    \A i, j \in 1..Len(documents) :
        documents[i].content_hash = documents[j].content_hash => i = j

\* every stored document counts the chunk rows stored for it
TotalChunksCounted ==
    \A i \in 1..Len(documents) :
        documents[i].total_chunks = StoredChunks(documents[i].id)

\* a call with force false on a file whose hash is stored writes nothing and,
\* when it returns, returns the stored document
NoWritesWhenStored ==
    (/\ pc # "idle"
     /\ ~force
     /\ get_document_by_hash(documents, document.content_hash) # NoDocument)
    => /\ documents' = documents
       /\ chunks' = chunks
       /\ (pc' = "idle" /\ error' = "none") =>
              saved_document' = get_document_by_hash(documents, document.content_hash)

\* C30: after any sequence of IngestPDFUseCase.execute calls, with force
\* false or true, on the same or on different files, there is at most one
\* document row per content hash and every stored document's total_chunks is
\* the number of stored chunks with its document_id; re-ingesting a file whose
\* hash is stored, with force false, writes nothing and returns the stored
\* document.
C30_IngestConsistent ==
    /\ [](pc = "idle" => (OneRowPerHash /\ TotalChunksCounted))
    /\ [][NoWritesWhenStored]_vars

====
